---------------------------- MODULE Spec2Model ----------------------------
(*************************************************************************)
(* A model of audit.py, the memory auditor: file collection with ignore *)
(* patterns, reading, the corpus scan (duplicates, stale markers,       *)
(* contradiction hints), the score, the remediation list and the        *)
(* strict-mode return code of run_audit.                                 *)
(*                                                                       *)
(* Text is modelled as TLA+ strings, handled character by character     *)
(* with Len, SubSeq, Tail and \o.                                        *)
(*************************************************************************)
EXTENDS Integers, Sequences, FiniteSets, TLC

VARIABLES
    pc,        \* position of the modelled call
    fs,        \* the file system: path -> [readable, txt], for existing files
    args,      \* run_audit's args: [dir, include_memory_md, strict]
    cfg,       \* the loaded configuration: [weights, ignore_patterns, threshold]
    paths,     \* collect_files' result
    files,     \* read_files' result: sequence of <<fn, txt>>
    line_index,\* scan's line -> first location mapping, as scan left it
    dups,      \* scan's duplicates
    stale,     \* scan's stale candidates
    contra,    \* scan's contradiction hints
    score,     \* calc_score's result
    rec,       \* remediation's result
    rc         \* run_audit's return code

vars == <<pc, fs, args, cfg, paths, files, line_index, dups, stale, contra,
          score, rec, rc>>

-----------------------------------------------------------------------------
(* Characters and strings *)

Char(s, i) == SubSeq(s, i, i)

\* The characters the model's texts use, in ascending code point order.
AsciiOrder == "\t\n\r !*-./0123456789:?ABCDEFGHIJKLMNOPQRSTUVWXYZ_abcdefghijklmnopqrstuvwxyz"

Ord(c) == CHOOSE i \in 1..Len(AsciiOrder) : Char(AsciiOrder, i) = c

UpperCase == "ABCDEFGHIJKLMNOPQRSTUVWXYZ"
LowerCase == "abcdefghijklmnopqrstuvwxyz"

\* str.isspace / the regex class \s, on the model's characters
IsSpace(c) == c \in {" ", "\t", "\n", "\r"}

\* str.lower() of each character of the model's texts
LowerTable ==
    [c \in {Char(AsciiOrder, i) : i \in 1..Len(AsciiOrder)} |->
        IF \E i \in 1..Len(UpperCase) : Char(UpperCase, i) = c
        THEN Char(LowerCase, CHOOSE i \in 1..Len(UpperCase) : Char(UpperCase, i) = c)
        ELSE c]

LowerChar(c) == LowerTable[c]

RECURSIVE lower(_)
lower(s) == IF s = "" THEN "" ELSE LowerChar(Char(s, 1)) \o lower(Tail(s))

RECURSIVE lstrip(_)
lstrip(s) == IF s # "" /\ IsSpace(Char(s, 1)) THEN lstrip(Tail(s)) ELSE s

RECURSIVE rstrip(_)
rstrip(s) ==
    IF s # "" /\ IsSpace(Char(s, Len(s)))
    THEN rstrip(SubSeq(s, 1, Len(s) - 1))
    ELSE s

strip(s) == rstrip(lstrip(s))

\* re.sub(r"\s+", " ", s): every maximal whitespace run becomes one space
RECURSIVE collapse_ws(_)
collapse_ws(s) ==
    IF s = "" THEN ""
    ELSE IF IsSpace(Char(s, 1))
         THEN " " \o collapse_ws(lstrip(Tail(s)))
         ELSE Char(s, 1) \o collapse_ws(Tail(s))

normalize_line(line) == collapse_ws(lower(strip(line)))

\* k in line
Contains(s, sub) ==
    \E i \in 1..(Len(s) - Len(sub) + 1) : SubSeq(s, i, i + Len(sub) - 1) = sub

IsLineBreak(c) == c \in {"\n", "\r"}

\* str.splitlines(): split at \n, \r and \r\n; no empty last line
RECURSIVE splitlines(_)
splitlines(txt) ==
    IF txt = "" THEN << >>
    ELSE IF \E i \in 1..Len(txt) : IsLineBreak(Char(txt, i))
         THEN LET i == CHOOSE k \in 1..Len(txt) :
                          /\ IsLineBreak(Char(txt, k))
                          /\ \A j \in 1..(k - 1) : ~IsLineBreak(Char(txt, j))
                  n == IF Char(txt, i) = "\r" /\ i < Len(txt) /\ Char(txt, i + 1) = "\n"
                       THEN i + 1 ELSE i
              IN  <<SubSeq(txt, 1, i - 1)>> \o splitlines(SubSeq(txt, n + 1, Len(txt)))
         ELSE <<txt>>

\* fnmatch.fnmatch(name, pat) on POSIX, for patterns of literals, * and ?
RECURSIVE fnmatch(_, _)
fnmatch(name, pat) ==
    IF pat = "" THEN name = ""
    ELSE IF Char(pat, 1) = "*"
         THEN fnmatch(name, Tail(pat)) \/ (name # "" /\ fnmatch(Tail(name), pat))
         ELSE IF Char(pat, 1) = "?"
              THEN name # "" /\ fnmatch(Tail(name), Tail(pat))
              ELSE /\ name # ""
                   /\ Char(name, 1) = Char(pat, 1)
                   /\ fnmatch(Tail(name), Tail(pat))

should_ignore(path, patterns) ==
    \E i \in 1..Len(patterns) : fnmatch(path, patterns[i])

-----------------------------------------------------------------------------
(* The file system and collect_files *)

\* The invocation directory, as an absolute path
Cwd == "/w"

StartsWith(s, prefix) ==
    Len(s) >= Len(prefix) /\ SubSeq(s, 1, Len(prefix)) = prefix

\* The parts of a path, split at "/"
RECURSIVE Parts(_)
Parts(p) ==
    IF \E i \in 1..Len(p) : Char(p, i) = "/"
    THEN LET i == CHOOSE k \in 1..Len(p) :
                     /\ Char(p, k) = "/"
                     /\ \A j \in 1..(k - 1) : Char(p, j) # "/"
         IN  <<SubSeq(p, 1, i - 1)>> \o Parts(SubSeq(p, i + 1, Len(p)))
    ELSE <<p>>

Basename(p) == Parts(p)[Len(Parts(p))]

\* a < b for strings, by code point
RECURSIVE StrLess(_, _)
StrLess(a, b) ==
    IF b = "" THEN FALSE
    ELSE IF a = "" THEN TRUE
    ELSE IF Char(a, 1) = Char(b, 1) THEN StrLess(Tail(a), Tail(b))
    ELSE Ord(Char(a, 1)) < Ord(Char(b, 1))

\* a < b for lists of strings
RECURSIVE PartsLess(_, _)
PartsLess(a, b) ==
    IF b = << >> THEN FALSE
    ELSE IF a = << >> THEN TRUE
    ELSE IF Head(a) = Head(b) THEN PartsLess(Tail(a), Tail(b))
    ELSE StrLess(Head(a), Head(b))

\* pathlib's order of paths: by their parts
PathLess(a, b) == PartsLess(Parts(a), Parts(b))

\* sorted(S) for a set of paths
RECURSIVE sorted(_)
sorted(S) ==
    IF S = {} THEN << >>
    ELSE LET m == CHOOSE x \in S : \A y \in S \ {x} : PathLess(x, y)
         IN  <<m>> \o sorted(S \ {m})

\* root.exists(), for a directory named relative to Cwd, "." or Cwd itself
dir_exists(dir, F) ==
    \/ dir \in {".", Cwd}
    \/ \E f \in F : StartsWith(f, dir \o "/")

\* str(p) of the files root.rglob("*.md") yields; F holds the existing files
\* by their path relative to Cwd
rglob_md(dir, F) ==
    LET under == IF dir \in {".", Cwd} THEN F
                 ELSE {f \in F : StartsWith(f, dir \o "/")}
        md    == {f \in under : fnmatch(Basename(f), "*.md")}
    IN  {IF dir = Cwd THEN Cwd \o "/" \o f ELSE f : f \in md}

SelectNotIgnored(seq, patterns) ==
    LET Keep(p) == ~should_ignore(p, patterns) IN SelectSeq(seq, Keep)

\* MemoryMd without line 45's should_ignore test
MemoryMdNoIgnoreCheck(F, include_memory_md, ignore_patterns) ==
    IF include_memory_md /\ "MEMORY.md" \in F
    THEN <<"MEMORY.md">> ELSE << >>

\* lines 43-46: the well-known file, appended after the directory's files
MemoryMd(F, include_memory_md, ignore_patterns) ==
    IF /\ include_memory_md
       /\ "MEMORY.md" \in F
       /\ ~should_ignore("MEMORY.md", ignore_patterns)
    THEN <<"MEMORY.md">> ELSE << >>

collect_files(memory_dir, include_memory_md, ignore_patterns, F) ==
    LET out == IF dir_exists(memory_dir, F)
               THEN SelectNotIgnored(sorted(rglob_md(memory_dir, F)), ignore_patterns)
               ELSE << >>
    IN  out \o MemoryMd(F, include_memory_md, ignore_patterns)

-----------------------------------------------------------------------------
(* read_files *)

\* The file system's key of a path collect_files returned
FsKey(p) ==
    IF StartsWith(p, Cwd \o "/") THEN SubSeq(p, Len(Cwd) + 2, Len(p)) ELSE p

\* read_text_or_empty without the except branch's ""
read_text_lenient(p, filesys) == filesys[FsKey(p)].txt

\* lines 53-56: a read that raises yields ""
read_text_or_empty(p, filesys) ==
    IF filesys[FsKey(p)].readable THEN filesys[FsKey(p)].txt ELSE ""

read_files(ps, filesys) ==
    [i \in 1..Len(ps) |-> <<ps[i], read_text_or_empty(ps[i], filesys)>>]

-----------------------------------------------------------------------------
(* scan *)

\* line 68: the first pass skips a normalized line shorter than this
MinLen == 15

\* line 78: the second pass keeps a normalized line longer than this
ContraMinLen == 15

StaleMarkers == {"todo", "later", "tbd", "fixme"}

ContraHint == "contains both 'always' and 'never' statements"

\* f"{fn}:{i}"
Loc(fn, i) == fn \o ":" \o ToString(i)

EmptyIndex == [x \in {} |-> ""]

\* line 68, negated: the line takes part in the first pass
InFirstPass(line) == ~(Len(line) < MinLen)

\* line 78: the line takes part in the second pass
InSecondPass(line) == Len(line) > ContraMinLen

\* line 74
is_stale(line) == \E k \in StaleMarkers : Contains(line, k)

\* IndexAfter with the mapping updated at every occurrence
IndexOverwritten(idx, line, loc) ==
    (line :> loc) @@ idx

\* lines 70-73: the mapping keeps the first location of a line
IndexAfter(idx, line, loc) ==
    IF line \in DOMAIN idx THEN idx ELSE (line :> loc) @@ idx

\* IsRepeat counting only a first occurrence in another file
IsRepeatInOtherFile(idx, line, fn) ==
    line \in DOMAIN idx /\ ~StartsWith(idx[line], fn \o ":")

\* line 70
IsRepeat(idx, line, fn) == line \in DOMAIN idx

\* StaleText with the normalized line in place of raw.strip()
StaleTextNormalized(raw) == normalize_line(raw)

\* line 75: raw.strip()
StaleText(raw) == strip(raw)

\* lines 68-75, for line i of file fn, raw, normalized to line;
\* st = [idx, dups, stale]
ScanLine(fn, i, raw, line, st) ==
    IF ~InFirstPass(line) THEN st
    ELSE [idx   |-> IndexAfter(st.idx, line, Loc(fn, i)),
          dups  |-> IF IsRepeat(st.idx, line, fn)
                    THEN Append(st.dups, [line   |-> line,
                                          first  |-> st.idx[line],
                                          second |-> Loc(fn, i)])
                    ELSE st.dups,
          stale |-> IF is_stale(line)
                    THEN Append(st.stale, [file |-> fn, line |-> i,
                                           text |-> StaleText(raw)])
                    ELSE st.stale]

\* lines 66-67: the lines of one file from line i on
RECURSIVE ScanLines(_, _, _, _)
ScanLines(fn, lines, i, st) ==
    IF i > Len(lines) THEN st
    ELSE ScanLines(fn, lines, i + 1,
                   ScanLine(fn, i, lines[i], normalize_line(lines[i]), st))

\* line 65: the files from file k on
RECURSIVE FirstPass(_, _, _)
FirstPass(fl, k, st) ==
    IF k > Len(fl) THEN st
    ELSE FirstPass(fl, k + 1, ScanLines(fl[k][1], splitlines(fl[k][2]), 1, st))

NormalizeAll(raws) == [i \in 1..Len(raws) |-> normalize_line(raws[i])]

\* line 78: the normalized lines the second pass keeps
SecondPassLines(norms) == SelectSeq(norms, InSecondPass)

\* lines 79-81
HasBoth(lines) ==
    /\ \E i \in 1..Len(lines) : Contains(lines[i], "always")
    /\ \E i \in 1..Len(lines) : Contains(lines[i], "never")

\* lines 78-81, for one text
HasContradiction(txt) == HasBoth(SecondPassLines(NormalizeAll(splitlines(txt))))

\* lines 77-82
RECURSIVE SecondPass(_, _)
SecondPass(fl, k) ==
    IF k > Len(fl) THEN << >>
    ELSE (IF HasContradiction(fl[k][2])
          THEN <<[file |-> fl[k][1], hint |-> ContraHint]>>
          ELSE << >>) \o SecondPass(fl, k + 1)

ScanResult(st, hints) ==
    [idx |-> st.idx, dups |-> st.dups, stale |-> st.stale, contra |-> hints]

\* scan(files): [idx, dups, stale, contra]; idx is line_index as scan leaves it
scan(fl) ==
    ScanResult(FirstPass(fl, 1, [idx |-> EmptyIndex, dups |-> << >>, stale |-> << >>]),
               SecondPass(fl, 1))

-----------------------------------------------------------------------------
(* calc_score, remediation, the return code *)

Max(a, b) == IF a >= b THEN a ELSE b

calc_score(d, s, c, weights) ==
    Max(0, 100 - (Len(d) * weights.duplicate + Len(s) * weights.stale
                  + Len(c) * weights.contradiction))

RecDuplicates == "Merge or delete duplicate lines; keep one canonical statement per fact."
RecStale == "Resolve TODO/TBD/FIXME entries or move them to task tracking."
RecContra == "Review always/never absolute statements and replace with scoped conditions."
RecNone == "No immediate remediation needed. Maintain current hygiene."

\* remediation with the first two blocks swapped
remediation_stale_first(d, s, c) ==
    LET r == (IF s # << >> THEN <<RecStale>> ELSE << >>)
             \o (IF d # << >> THEN <<RecDuplicates>> ELSE << >>)
             \o (IF c # << >> THEN <<RecContra>> ELSE << >>)
    IN  IF r = << >> THEN <<RecNone>> ELSE r

remediation(d, s, c) ==
    LET r == (IF d # << >> THEN <<RecDuplicates>> ELSE << >>)
             \o (IF s # << >> THEN <<RecStale>> ELSE << >>)
             \o (IF c # << >> THEN <<RecContra>> ELSE << >>)
    IN  IF r = << >> THEN <<RecNone>> ELSE r

\* strict_fail with <= for <
strict_fail_at_threshold(strict, sc, threshold) == strict /\ sc <= threshold

\* line 187
strict_fail(strict, sc, threshold) == strict /\ sc < threshold

\* lines 187-190
return_code(strict, sc, threshold) ==
    IF strict_fail(strict, sc, threshold) THEN 3 ELSE 0

-----------------------------------------------------------------------------
(* Values of the variables a call has not set yet *)

NoArgs == [dir |-> ".", include_memory_md |-> TRUE, strict |-> FALSE]

\* default_config()
DefaultWeights == [duplicate |-> 2, stale |-> 1, contradiction |-> 5]
DefaultConfig ==
    [weights |-> DefaultWeights, ignore_patterns |-> << >>, threshold |-> 80]

NoFs == [x \in {} |-> [readable |-> TRUE, txt |-> ""]]

NotYet == 0 - 1

-----------------------------------------------------------------------------
(* scan(files), called on its own *)

\* Raw lines with their line ends, of which the scanned texts are made
LinePool ==
    << "Alpha beta gamma\n",
       "  alpha  BETA\tgamma \r\n",
       "TODO fix parser \n",
       "fixme\n",
       "we always do it\n",
       "never do it now\r",
       "Always and never" >>

\* The scanned texts hold at most this many pool lines in all
MaxLines == 3

ScanNames == <<"memory/a.md", "memory/b.md", "MEMORY.md">>

RECURSIVE Concat(_, _, _)
Concat(ls, from, to) ==
    IF from > to THEN "" ELSE LinePool[ls[from]] \o Concat(ls, from + 1, to)

InitScan ==
    /\ pc = "scan"
    /\ \E t \in 0..MaxLines :
         \E ls \in [1..t -> 1..Len(LinePool)] :
           \E c1 \in 0..t :
             \E c2 \in c1..t :
               files = << <<ScanNames[1], Concat(ls, 1, c1)>>,
                          <<ScanNames[2], Concat(ls, c1 + 1, c2)>>,
                          <<ScanNames[3], Concat(ls, c2 + 1, t)>> >>
    /\ fs = NoFs /\ args = NoArgs /\ cfg = DefaultConfig
    /\ paths = << >>
    /\ line_index = EmptyIndex
    /\ dups = << >> /\ stale = << >> /\ contra = << >>
    /\ score = NotYet /\ rec = << >> /\ rc = NotYet

\* One call of scan(files); a later call scans the same files again
ScanInto(r) ==
    /\ line_index' = r.idx
    /\ dups' = r.dups
    /\ stale' = r.stale
    /\ contra' = r.contra

Scan ==
    /\ pc \in {"scan", "scanned"}
    /\ ScanInto(scan(files))
    /\ pc' = "scanned"
    /\ UNCHANGED <<fs, args, cfg, paths, files, score, rec, rc>>

SpecScan == InitScan /\ [][Scan]_vars

-----------------------------------------------------------------------------
(* calc_score and remediation, called on findings of any size *)

\* The findings collections hold at most this many findings each
MaxCount == 3

\* Integer weights; config_check asks only that a weight is an integer
WeightValues == {-1, 0, 1, 2, 5, 60}

SomeDups(n) ==
    [i \in 1..n |-> [line |-> "alpha beta gamma", first |-> "memory/a.md:1",
                     second |-> Loc("memory/b.md", i)]]

SomeStale(n) ==
    [i \in 1..n |-> [file |-> "memory/a.md", line |-> i, text |-> "TODO fix parser"]]

SomeContra(n) ==
    [i \in 1..n |-> [file |-> "memory/" \o ToString(i) \o ".md", hint |-> ContraHint]]

InitScore ==
    /\ pc = "findings"
    /\ \E n \in 0..MaxCount : dups = SomeDups(n)
    /\ \E n \in 0..MaxCount : stale = SomeStale(n)
    /\ \E n \in 0..MaxCount : contra = SomeContra(n)
    /\ \E wd \in WeightValues, ws \in WeightValues, wc \in WeightValues :
         cfg = [DefaultConfig EXCEPT
                  !.weights = [duplicate |-> wd, stale |-> ws, contradiction |-> wc]]
    /\ fs = NoFs /\ args = NoArgs
    /\ paths = << >> /\ files = << >>
    /\ line_index = EmptyIndex
    /\ score = NotYet /\ rec = << >> /\ rc = NotYet

\* line 149
CalcScore ==
    /\ pc = "findings"
    /\ score' = calc_score(dups, stale, contra, cfg.weights)
    /\ pc' = "scored"
    /\ UNCHANGED <<fs, args, cfg, paths, files, line_index, dups, stale, contra,
                   rec, rc>>

\* line 150
Remediation ==
    /\ pc = "scored"
    /\ rec' = remediation(dups, stale, contra)
    /\ pc' = "advised"
    /\ UNCHANGED <<fs, args, cfg, paths, files, line_index, dups, stale, contra,
                   score, rc>>

SpecScore == InitScore /\ [][CalcScore \/ Remediation]_vars

-----------------------------------------------------------------------------
(* collect_files, called on its own *)

\* The files that may exist, by their path relative to Cwd
AllFiles ==
    {"MEMORY.md", "memory/a.md", "memory/sub/b.md", "memory/notes.txt", "zeta.md"}

Roots == {".", "memory", "memory/sub", "nodir", Cwd}

PatternPool == <<"*", "MEMORY.md", "memory/*", "*/?.md", "*.txt">>

\* ignore_patterns holds at most this many patterns
MaxPatterns == 2

EmptyFiles(F) == [f \in F |-> [readable |-> TRUE, txt |-> ""]]

InitCollect ==
    /\ pc = "collect"
    /\ \E F \in SUBSET AllFiles : fs = EmptyFiles(F)
    /\ \E d \in Roots, inc \in BOOLEAN :
         args = [dir |-> d, include_memory_md |-> inc, strict |-> FALSE]
    /\ \E n \in 0..MaxPatterns :
         \E ps \in [1..n -> 1..Len(PatternPool)] :
           cfg = [DefaultConfig EXCEPT
                    !.ignore_patterns = [i \in 1..n |-> PatternPool[ps[i]]]]
    /\ paths = << >> /\ files = << >>
    /\ line_index = EmptyIndex
    /\ dups = << >> /\ stale = << >> /\ contra = << >>
    /\ score = NotYet /\ rec = << >> /\ rc = NotYet

\* line 146
CollectFiles ==
    /\ pc = "collect"
    /\ paths' = collect_files(args.dir, args.include_memory_md,
                              cfg.ignore_patterns, DOMAIN fs)
    /\ pc' = "collected"
    /\ UNCHANGED <<fs, args, cfg, files, line_index, dups, stale, contra,
                   score, rec, rc>>

SpecCollect == InitCollect /\ [][CollectFiles]_vars

-----------------------------------------------------------------------------
(* run_audit *)

AuditFiles == {"MEMORY.md", "memory/a.md", "memory/b.md"}

TxtA == "Alpha beta gamma delta\n"
TxtB == "  alpha  BETA gamma delta \nTODO: revisit this later\n"
TxtC == "We always validate input.\nWe never trust raw data.\n"

\* What a file may hold; an unreadable file's txt is what its bytes would
\* read as if the decoding error were ignored
FileStates ==
    {[readable |-> TRUE, txt |-> ""],
     [readable |-> TRUE, txt |-> TxtA],
     [readable |-> TRUE, txt |-> TxtB],
     [readable |-> TRUE, txt |-> TxtC],
     [readable |-> FALSE, txt |-> TxtB]}

AuditRoots == {".", "memory"}

AuditPatterns ==
    {<< >>, <<"memory/a*">>, <<"MEMORY.md">>, <<"*/b.md", "MEMORY.md">>, <<"*">>}

AuditWeights == {DefaultWeights, [duplicate |-> 30, stale |-> 1, contradiction |-> 5]}

AuditThresholds == {80, 100}

Init ==
    /\ pc = "start"
    /\ \E F \in SUBSET AuditFiles : fs \in [F -> FileStates]
    /\ \E d \in AuditRoots, inc \in BOOLEAN, st \in BOOLEAN :
         args = [dir |-> d, include_memory_md |-> inc, strict |-> st]
    /\ \E w \in AuditWeights, ps \in AuditPatterns, th \in AuditThresholds :
         cfg = [weights |-> w, ignore_patterns |-> ps, threshold |-> th]
    /\ paths = << >> /\ files = << >>
    /\ line_index = EmptyIndex
    /\ dups = << >> /\ stale = << >> /\ contra = << >>
    /\ score = NotYet /\ rec = << >> /\ rc = NotYet

\* line 154: the report's scanned_files
scanned_files == [i \in 1..Len(files) |-> files[i][1]]

\* lines 149-150 and 186-190
AuditScored(r, sc) ==
    /\ score' = sc
    /\ rec' = remediation(r.dups, r.stale, r.contra)
    /\ rc' = return_code(args.strict, sc, cfg.threshold)

\* line 148
AuditScanned(r) ==
    /\ ScanInto(r)
    /\ AuditScored(r, calc_score(r.dups, r.stale, r.contra, cfg.weights))

\* line 147
AuditRead(fl) ==
    /\ files' = fl
    /\ AuditScanned(scan(fl))

\* line 146
AuditCollected(ps) ==
    /\ paths' = ps
    /\ AuditRead(read_files(ps, fs))

\* run_audit(args), with the configuration load_config returned
RunAudit ==
    /\ pc = "start"
    /\ AuditCollected(collect_files(args.dir, args.include_memory_md,
                                    cfg.ignore_patterns, DOMAIN fs))
    /\ pc' = "done"
    /\ UNCHANGED <<fs, args, cfg>>

Next == RunAudit

Spec == Init /\ [][Next]_vars

-----------------------------------------------------------------------------
(* What the properties below are stated in: the line occurrences of a     *)
(* sequence of files in scan order, and the set of elements of a sequence *)

Range(seq) == {seq[i] : i \in 1..Len(seq)}

OccOfLines(fn, raws) ==
    [i \in 1..Len(raws) |->
        [fn |-> fn, i |-> i, raw |-> raws[i], line |-> normalize_line(raws[i])]]

RECURSIVE AllOcc(_, _)
AllOcc(fl, k) ==
    IF k > Len(fl) THEN << >>
    ELSE OccOfLines(fl[k][1], splitlines(fl[k][2])) \o AllOcc(fl, k + 1)

Indices(n) == [k \in 1..n |-> k]

\* t is raw without its leading and trailing whitespace
IsTrimOf(t, raw) ==
    /\ t = "" \/ (~IsSpace(Char(t, 1)) /\ ~IsSpace(Char(t, Len(t))))
    /\ \E i \in 1..(Len(raw) - Len(t) + 1) :
         /\ SubSeq(raw, i, i + Len(t) - 1) = t
         /\ \A j \in 1..Len(raw) : (j < i \/ j > i + Len(t) - 1) => IsSpace(Char(raw, j))

-----------------------------------------------------------------------------
(* C1: calc_score returns an integer in [0, 100] for all finding counts    *)
(* and all integer weights, and exactly 100 when all three counts are 0.   *)
(* The code's score exceeds 100 for a negative weight.                     *)
C1_ScoreInRange ==
    pc \in {"scored", "advised"} =>
        /\ score \in 0..100
        /\ (Len(dups) = 0 /\ Len(stale) = 0 /\ Len(contra) = 0) => score = 100

-----------------------------------------------------------------------------
(* C2: a normalized line of length >= 15 occurring N times in the scanned  *)
(* files yields exactly N-1 duplicate findings, one per occurrence after   *)
(* the first in scan order, each with second = that occurrence's location  *)
(* and first = the location of the earliest occurrence.                    *)
C2_ExpectedDups(occ) ==
    LET IsLater(k) == /\ Len(occ[k].line) >= 15
                      /\ \E j \in 1..(k - 1) : occ[j].line = occ[k].line
        Earliest(k) == CHOOSE j \in 1..k :
                          /\ occ[j].line = occ[k].line
                          /\ \A h \in 1..(j - 1) : occ[h].line # occ[k].line
        later == SelectSeq(Indices(Len(occ)), IsLater)
    IN  [n \in 1..Len(later) |->
            [line   |-> occ[later[n]].line,
             first  |-> occ[Earliest(later[n])].fn \o ":"
                           \o ToString(occ[Earliest(later[n])].i),
             second |-> occ[later[n]].fn \o ":" \o ToString(occ[later[n]].i)]]

C2_CountsOf(occ, found) ==
    \A k \in 1..Len(occ) :
        Len(occ[k].line) >= 15 =>
            Cardinality({n \in 1..Len(found) : found[n].line = occ[k].line})
              = Cardinality({j \in 1..Len(occ) : occ[j].line = occ[k].line}) - 1

C2_DupsAre(occ) ==
    /\ dups = C2_ExpectedDups(occ)
    /\ C2_CountsOf(occ, dups)

C2_Duplicates == pc = "scanned" => C2_DupsAre(AllOcc(files, 1))

\* three files of one line each, the same after normalization: two findings,
\* both pointing to the first file's line
C2_Witness ==
    /\ pc = "scanned"
    /\ Len(dups) = 2
    /\ dups[1].first = "memory/a.md:1" /\ dups[2].first = "memory/a.md:1"
    /\ dups[1].second = "memory/b.md:1" /\ dups[2].second = "MEMORY.md:1"

-----------------------------------------------------------------------------
(* C3: scan emits exactly one contradiction hint for a file iff the file   *)
(* has a line of normalized length >= 15 containing "always" and a line of *)
(* normalized length >= 15 containing "never"; length exactly 15 counts.   *)
(* The code's second pass keeps only lines longer than 15.                 *)
C3_Qualifies(txt, word) ==
    \E l \in Range(NormalizeAll(splitlines(txt))) : Len(l) >= 15 /\ Contains(l, word)

C3_ExpectedContra(fl) ==
    LET Hinted(k) == C3_Qualifies(fl[k][2], "always") /\ C3_Qualifies(fl[k][2], "never")
        hinted == SelectSeq(Indices(Len(fl)), Hinted)
    IN  [n \in 1..Len(hinted) |->
            [file |-> fl[hinted[n]][1],
             hint |-> "contains both 'always' and 'never' statements"]]

C3_ContradictionAtFloor == pc = "scanned" => contra = C3_ExpectedContra(files)

-----------------------------------------------------------------------------
(* C7: the number of duplicate findings is the same for every ordering of  *)
(* the scanned files, and scanning the same sequence again yields the same *)
(* findings.                                                                *)
Permuted(fl, p) == [i \in 1..Len(fl) |-> fl[p[i]]]

\* the duplicates scan's first pass finds in fl
C7_DupsOf(fl) ==
    FirstPass(fl, 1, [idx |-> EmptyIndex, dups |-> << >>, stale |-> << >>]).dups

C7_SameCountInEveryOrder ==
    pc = "scanned" =>
        \A p \in Permutations(1..Len(files)) :
            Len(C7_DupsOf(Permuted(files, p))) = Len(dups)

C7_RescanSame ==
    pc = "scanned" => (dups' = dups /\ stale' = stale /\ contra' = contra
                       /\ line_index' = line_index)

C7_OrderAndDeterminism == []C7_SameCountInEveryOrder /\ [][C7_RescanSame]_vars

\* an ordering that changes which occurrence is first, not how many repeat
C7_Witness ==
    /\ pc = "scanned"
    /\ Len(dups) >= 2
    /\ \E p \in Permutations(1..Len(files)) :
         C7_DupsOf(Permuted(files, p)) # dups

-----------------------------------------------------------------------------
(* C8: scan emits exactly one stale finding for a line iff its normalized  *)
(* form has length >= 15 and contains "todo", "later", "tbd" or "fixme",   *)
(* whether or not the line is a duplicate; the finding carries the file,   *)
(* the 1-indexed line number and the whitespace-trimmed raw text.          *)
C8_StaleAre(occ) ==
    LET Marked(k) == /\ Len(occ[k].line) >= 15
                     /\ \E m \in {"todo", "later", "tbd", "fixme"} :
                          Contains(occ[k].line, m)
        marked == SelectSeq(Indices(Len(occ)), Marked)
    IN  /\ Len(stale) = Len(marked)
        /\ \A n \in 1..Len(marked) :
             /\ stale[n].file = occ[marked[n]].fn
             /\ stale[n].line = occ[marked[n]].i
             /\ IsTrimOf(stale[n].text, occ[marked[n]].raw)

C8_Stale == pc = "scanned" => C8_StaleAre(AllOcc(files, 1))

\* a marker line, repeated, beside a marker line that is too short
C8_Witness ==
    /\ pc = "scanned"
    /\ files[1][2] = "fixme\nTODO fix parser \nTODO fix parser \n"
    /\ stale = << [file |-> "memory/a.md", line |-> 2, text |-> "TODO fix parser"],
                  [file |-> "memory/a.md", line |-> 3, text |-> "TODO fix parser"] >>
    /\ Len(dups) = 1 /\ dups[1].second = "memory/a.md:3"

-----------------------------------------------------------------------------
(* C4: run_audit returns 3 (strict-fail) iff strict mode is on and the     *)
(* score is strictly less than the threshold, and 0 in every other case.   *)
C4_StrictFail ==
    pc = "done" =>
        /\ rc \in {0, 3}
        /\ rc = 3 <=> (args.strict /\ score < cfg.threshold)

\* threshold 80, score 70, strict on
C4_Witness ==
    /\ pc = "done"
    /\ args.strict /\ cfg.threshold = 80 /\ score = 70
    /\ rc = 3

-----------------------------------------------------------------------------
(* C5: collect_files returns no identifier twice, also when MEMORY.md lies *)
(* inside the scanned root directory. The code appends MEMORY.md again.    *)
C5_NoIdentifierTwice ==
    pc = "collected" =>
        \A i \in 1..Len(paths) : \A j \in 1..Len(paths) :
            i # j => paths[i] # paths[j]

-----------------------------------------------------------------------------
(* C6: a document whose path matches an ignore pattern is not in the       *)
(* collector's output nor in the scanned-files list and no finding names   *)
(* it, also for MEMORY.md with the include flag set; patterns matching     *)
(* every path give an empty document list and a completed run.             *)
C6_Ignored(p) ==
    \E i \in 1..Len(cfg.ignore_patterns) : fnmatch(p, cfg.ignore_patterns[i])

C6_NamedByLocation(loc) ==
    \E p \in Range(scanned_files) : StartsWith(loc, p \o ":")

C6_IgnoreExclusive ==
    pc = "done" =>
        /\ \A i \in 1..Len(paths) : ~C6_Ignored(paths[i])
        /\ \A i \in 1..Len(scanned_files) : ~C6_Ignored(scanned_files[i])
        /\ \A n \in 1..Len(dups) :
             C6_NamedByLocation(dups[n].first) /\ C6_NamedByLocation(dups[n].second)
        /\ \A n \in 1..Len(stale) : stale[n].file \in Range(scanned_files)
        /\ \A n \in 1..Len(contra) : contra[n].file \in Range(scanned_files)
        /\ (\A f \in DOMAIN fs : C6_Ignored(f)) =>
             (paths = << >> /\ scanned_files = << >> /\ dups = << >>
              /\ stale = << >> /\ contra = << >> /\ rc \in {0, 3})

\* MEMORY.md exists, is included and ignored; the directory's files are scanned
C6_Witness ==
    /\ pc = "done"
    /\ args.include_memory_md /\ args.dir = "memory"
    /\ "MEMORY.md" \in DOMAIN fs
    /\ cfg.ignore_patterns = <<"*/b.md", "MEMORY.md">>
    /\ "memory/b.md" \in DOMAIN fs
    /\ paths = <<"memory/a.md">>

-----------------------------------------------------------------------------
(* C9: remediation returns the duplicates, stale and contradiction advice  *)
(* in that order, each iff its collection is non-empty, and the single     *)
(* "no action needed" message iff all three are empty.                     *)
C9_Order == <<"Merge or delete duplicate lines; keep one canonical statement per fact.",
              "Resolve TODO/TBD/FIXME entries or move them to task tracking.",
              "Review always/never absolute statements and replace with scoped conditions.",
              "No immediate remediation needed. Maintain current hygiene.">>

C9_Pos(m) == CHOOSE i \in 1..Len(C9_Order) : C9_Order[i] = m

C9_Remediation ==
    pc = "advised" =>
        /\ Len(rec) >= 1
        /\ Range(rec) \subseteq Range(C9_Order)
        /\ \A i \in 1..Len(rec) : \A j \in 1..Len(rec) :
             i < j => C9_Pos(rec[i]) < C9_Pos(rec[j])
        /\ C9_Order[1] \in Range(rec) <=> Len(dups) > 0
        /\ C9_Order[2] \in Range(rec) <=> Len(stale) > 0
        /\ C9_Order[3] \in Range(rec) <=> Len(contra) > 0
        /\ C9_Order[4] \in Range(rec)
             <=> (Len(dups) = 0 /\ Len(stale) = 0 /\ Len(contra) = 0)

\* several duplicates and stale lines, no contradiction
C9_Witness ==
    /\ pc = "advised"
    /\ Len(dups) = 2 /\ Len(stale) = 3 /\ Len(contra) = 0
    /\ rec = <<C9_Order[1], C9_Order[2]>>

-----------------------------------------------------------------------------
(* C10: a collected document whose read fails is scanned as an empty       *)
(* document: it stays in the scanned-files list at its collector position, *)
(* no finding names it, and the findings and the score are those of the    *)
(* run in which the document is an empty file.                             *)
C10_Unreadable(p) == ~fs[FsKey(p)].readable

C10_AsEmpty ==
    [f \in DOMAIN fs |->
        IF fs[f].readable THEN fs[f] ELSE [readable |-> TRUE, txt |-> ""]]

C10_SameAs(r) ==
    /\ dups = r.dups /\ stale = r.stale /\ contra = r.contra
    /\ score = calc_score(r.dups, r.stale, r.contra, cfg.weights)

C10_ReadFailure ==
    pc = "done" =>
        /\ scanned_files = collect_files(args.dir, args.include_memory_md,
                                         cfg.ignore_patterns, DOMAIN fs)
        /\ \A i \in 1..Len(scanned_files) :
             C10_Unreadable(scanned_files[i]) =>
               /\ files[i][2] = ""
               /\ \A n \in 1..Len(dups) :
                    /\ ~StartsWith(dups[n].first, scanned_files[i] \o ":")
                    /\ ~StartsWith(dups[n].second, scanned_files[i] \o ":")
               /\ \A n \in 1..Len(stale) : stale[n].file # scanned_files[i]
               /\ \A n \in 1..Len(contra) : contra[n].file # scanned_files[i]
        /\ C10_SameAs(scan(read_files(paths, C10_AsEmpty)))

\* an unreadable file between two readable ones that repeat a line
C10_Witness ==
    /\ pc = "done"
    /\ scanned_files = <<"memory/a.md", "memory/b.md", "MEMORY.md">>
    /\ C10_Unreadable(scanned_files[2])
    /\ ~C10_Unreadable(scanned_files[1]) /\ ~C10_Unreadable(scanned_files[3])
    /\ Len(dups) = 1 /\ score < 100

=============================================================================
